---- MODULE Spec2Model ----
(***************************************************************************)
(* Model of the account service (services.AccountService): the six public  *)
(* operations, account linking (createFromExternal) and credential         *)
(* issuance (genAuthOutput), over the three repositories and the adapters. *)
(*                                                                         *)
(* Every public operation runs in a request slot p (a handler goroutine).  *)
(* One step of the model is one repository call, adapter call or goroutine *)
(* body, together with the local code that follows it up to the next call. *)
(* The repositories and adapters are interfaces: their results are drawn   *)
(* from the outcomes their contracts allow.                                *)
(***************************************************************************)
EXTENDS Integers, Sequences, FiniteSets, TLC

\* Number of request slots (handler goroutines that can exist at once).
NumProcs == 2

Procs == 1..NumProcs

None == "none"
\* Go zero values: the empty string of accountId, and a nil error / pointer.
NoAccount == 0
Nil == "nil"

Emails == {"a@x.com", "b@x.com"}
Phones == {"+5511"}
SubjectIds == {"g1", "g2"}
ExternalTypes == {"GOOGLE", "FACEBOOK"}
Codes == {"c1", "c2"}
Tokens == {"t1", "t2"}
InputAccountIds == {1, 2}

VARIABLES
  accounts,       \* account store, committed rows [id, email, phone]
  identities,     \* sign-in providers, committed rows [accountId, providerId, providerType]
  refreshTokens,  \* refresh-token store, committed rows [accountId, token]
  magicLinks,     \* magic-link store, committed rows [accountId, code, isFirstAccess]
  pc,             \* per slot: position in the operation
  req,            \* per slot: the operation and its input
  tx,             \* per slot: the *sql.Tx of the operation
  pend,           \* per slot: rows written under the still uncommitted tx
  loc,            \* per slot: local variables of the operation
  gen,            \* per slot: local variables of genAuthOutput
  res,            \* per slot: what the operation returned
  pre,            \* per slot: the committed stores when the operation began
  validated       \* (accountId, code) pairs an ExchangeCode found since their upsert

stores == <<accounts, identities, refreshTokens, magicLinks>>
vars == <<accounts, identities, refreshTokens, magicLinks, pc, req, tx,
          pend, loc, gen, res, pre, validated>>

--------------------------------------------------------------------------
\* Rows and the transaction view of the stores

Max(S) == IF S = {} THEN 0 ELSE CHOOSE x \in S : \A y \in S : y <= x

Account(id, email, phone) == [id |-> id, email |-> email, phone |-> phone]
Identity(a, id, type) == [accountId |-> a, providerId |-> id, providerType |-> type]

NoPend == [accounts |-> {}, identities |-> {}, refreshTokens |-> {}, magicLinks |-> {}]

\* What a lookup under slot p's transaction sees: the committed rows and the
\* rows written under that transaction.
ViewAccounts(p) == accounts \cup pend[p].accounts
ViewIdentities(p) == identities \cup pend[p].identities
ViewRefreshTokens(p) == refreshTokens \cup pend[p].refreshTokens
ViewMagicLinks(p) ==
  {m \in magicLinks : \A n \in pend[p].magicLinks : n.accountId # m.accountId}
    \cup pend[p].magicLinks

\* Account ids are generated by the store and never reused while a row or an
\* uncommitted row holds them.
NewAccountId ==
  1 + Max({a.id : a \in accounts \cup UNION {pend[q].accounts : q \in Procs}})

NoReq == [op |-> None, dest |-> None, accountId |-> NoAccount, secret |-> None,
          providerType |-> None]
NoProviderData == [id |-> "", email |-> "", isEmailVerified |-> FALSE]
NoPre == <<{}, {}, {}, {}>>
NoLoc == [accountId |-> NoAccount, isFirstAccess |-> FALSE, scopes |-> None,
          providerData |-> NoProviderData, related |-> <<>>, magicLinkCode |-> None,
          sentTo |-> None, sentCode |-> None, minted |-> FALSE]
NoGen == [db |-> None, accountId |-> NoAccount, isFirstAccess |-> FALSE,
          refresh |-> FALSE, wg |-> 0, err |-> Nil, refreshToken |-> Nil,
          accessToken |-> Nil, grRefresh |-> "none", grAccess |-> "none",
          refreshDb |-> None]

--------------------------------------------------------------------------
\* The initial stores: rows a database of this service can hold. Sign-in
\* identities and refresh tokens are there from the start, since no operation
\* gets to commit one (credential issuance never ends, see Blocked); accounts
\* without identities and magic-link codes are written by the passwordless
\* flows.

InitAccountRows == {Account(1, "a@x.com", None), Account(2, "b@x.com", None)}

\* (provider type, subject id) is unique, and an account holds at most one
\* identity per provider type.
WellFormedIdentities(ids) ==
  \A i, j \in ids :
    (i # j) => /\ ~(i.providerType = j.providerType /\ i.providerId = j.providerId)
               /\ ~(i.providerType = j.providerType /\ i.accountId = j.accountId)

Init ==
  /\ accounts \in {{}, {Account(1, "a@x.com", None)}}
  /\ identities \in SUBSET {Identity(a.id, "g1", "GOOGLE") : a \in accounts}
  /\ refreshTokens \in
       SUBSET {[accountId |-> a.id, token |-> "t1"] : a \in {b \in accounts : b.id = 1}}
  /\ magicLinks = {}
  /\ pc = [p \in Procs |-> "idle"]
  /\ req = [p \in Procs |-> NoReq]
  /\ tx = [p \in Procs |-> "none"]
  /\ pend = [p \in Procs |-> NoPend]
  /\ loc = [p \in Procs |-> NoLoc]
  /\ gen = [p \in Procs |-> NoGen]
  /\ res = [p \in Procs |-> None]
  /\ pre = [p \in Procs |-> NoPre]
  /\ validated = {}

--------------------------------------------------------------------------
\* Transactions (database/sql): Begin, Commit, Rollback

\* tx.Rollback(): the rows written under the transaction are dropped. On a
\* transaction that is already done it changes nothing.
TxRollback(p) ==
  /\ tx' = [tx EXCEPT ![p] = IF @ = "open" THEN "rolledback" ELSE @]
  /\ pend' = [pend EXCEPT ![p] = NoPend]
  /\ UNCHANGED stores

\* tx.Commit(): the rows written under the transaction become visible. An
\* upserted magic-link code replaces the account's committed one.
TxCommit(p) ==
  /\ tx' = [tx EXCEPT ![p] = IF @ = "open" THEN "committed" ELSE @]
  /\ accounts' = IF tx[p] = "open" THEN accounts \cup pend[p].accounts ELSE accounts
  /\ identities' = IF tx[p] = "open" THEN identities \cup pend[p].identities
                                      ELSE identities
  /\ refreshTokens' = IF tx[p] = "open" THEN refreshTokens \cup pend[p].refreshTokens
                                         ELSE refreshTokens
  /\ magicLinks' = IF tx[p] = "open" THEN ViewMagicLinks(p) ELSE magicLinks
  /\ pend' = [pend EXCEPT ![p] = NoPend]

\* return <value>, <error>
Return(p, r) ==
  /\ pc' = [pc EXCEPT ![p] = "returned"]
  /\ res' = [res EXCEPT ![p] = r]

\* tx.Rollback(); return errors.New(msg)
Abort(p, msg) ==
  /\ TxRollback(p)
  /\ Return(p, msg)

\* The caller issues one request at a time, into the lowest slot: under Spec,
\* SpecLink and FairSpec requests do not overlap, and the only concurrency is
\* that of the two goroutines of genAuthOutput.
CanStart(p) ==
  /\ pc[p] = "idle"
  /\ \A q \in Procs : pc[q] = "idle"
  /\ \A q \in Procs : p <= q

\* serv.Db.Begin() and the early return when it fails.
Begin(p, r, first) ==
  /\ req' = [req EXCEPT ![p] = r]
  /\ pre' = [pre EXCEPT ![p] = stores]
  /\ loc' = [loc EXCEPT ![p] = NoLoc]
  /\ gen' = [gen EXCEPT ![p] = NoGen]
  /\ UNCHANGED <<stores, validated, pend>>
  /\ \/ /\ tx' = [tx EXCEPT ![p] = "open"]
        /\ pc' = [pc EXCEPT ![p] = first]
        /\ res' = [res EXCEPT ![p] = None]
     \/ /\ tx' = [tx EXCEPT ![p] = "none"]
        /\ Return(p, "fail to create transaction")

--------------------------------------------------------------------------
\* Passwordless flows: CreateFromEmailProvider and CreateFromPhoneProvider.
\* The two handlers have the same body; req[p].op says which one runs.

IsPasswordless(p) ==
  req[p].op \in {"CreateFromEmailProvider", "CreateFromPhoneProvider"}

CreateFromEmailProvider(p) ==
  /\ CanStart(p)
  /\ \E e \in Emails :
    Begin(p, [NoReq EXCEPT !.op = "CreateFromEmailProvider", !.dest = e], "pl_get")

CreateFromPhoneProvider(p) ==
  /\ CanStart(p)
  /\ \E n \in Phones :
    Begin(p, [NoReq EXCEPT !.op = "CreateFromPhoneProvider", !.dest = n], "pl_get")

\* AccountRepository.GetByEmail / GetByPhone under the transaction.
ExistentAccounts(p) ==
  IF req[p].op = "CreateFromEmailProvider"
    THEN {a \in ViewAccounts(p) : a.email = req[p].dest}
    ELSE {a \in ViewAccounts(p) : a.phone = req[p].dest}

\* Mutant of NewPasswordlessAccount: the create input leaves the email or
\* phone out.
NewPasswordlessAccount_blank(p) == Account(NewAccountId, None, None)

\* The row AccountRepository.Create writes for the passwordless input.
NewPasswordlessAccount(p) ==
  IF req[p].op = "CreateFromEmailProvider"
    THEN Account(NewAccountId, req[p].dest, None)
    ELSE Account(NewAccountId, None, req[p].dest)

\* The store rejects a row that repeats an email or a phone (a unique
\* constraint). The constraint also counts the rows other open transactions
\* have written: a create that repeats one of those does not go through
\* before that transaction has ended.
DuplicatesAccount(p, row) ==
  \E a \in accounts \cup UNION {pend[q].accounts : q \in Procs} :
    \/ row.email # None /\ a.email = row.email
    \/ row.phone # None /\ a.phone = row.phone

\* Mutant of createFailed: the error of the create is not looked at, and the
\* flow goes on with the empty account id.
createFailed_ignored(p) ==
  /\ pc' = [pc EXCEPT ![p] = "pl_upsert"]
  /\ UNCHANGED <<stores, tx, pend, res>>

\* if err != nil { tx.Rollback(); return errors.New("fail to create account") }
createFailed(p) == Abort(p, "fail to create account")

\* existentAccount, err := GetByEmail(...); the branch on existentAccount == nil.
passwordless_get(p) ==
  /\ pc[p] = "pl_get" /\ IsPasswordless(p)
  /\ UNCHANGED <<req, gen, pre, validated>>
  /\ \/ /\ Abort(p, "fail to get account")
        /\ UNCHANGED loc
     \/ /\ ExistentAccounts(p) = {}
        /\ pc' = [pc EXCEPT ![p] = "pl_create"]
        /\ UNCHANGED <<stores, tx, pend, loc, res>>
     \/ /\ \E a \in ExistentAccounts(p) :
             loc' = [loc EXCEPT ![p].accountId = a.id]
        /\ pc' = [pc EXCEPT ![p] = "pl_upsert"]
        /\ UNCHANGED <<stores, tx, pend, res>>

\* createdAccount, err := AccountRepository.Create(...)
passwordless_create(p) ==
  /\ pc[p] = "pl_create" /\ IsPasswordless(p)
  /\ UNCHANGED <<req, gen, pre, validated>>
  /\ \/ /\ createFailed(p)
        /\ UNCHANGED loc
     \/ /\ ~DuplicatesAccount(p, NewPasswordlessAccount(p))
        /\ pend' = [pend EXCEPT ![p].accounts = @ \cup {NewPasswordlessAccount(p)}]
        /\ loc' = [loc EXCEPT ![p].accountId = NewAccountId,
                              ![p].isFirstAccess = TRUE]
        /\ pc' = [pc EXCEPT ![p] = "pl_upsert"]
        /\ UNCHANGED <<stores, tx, res>>

\* magicLinkCode, err := MagicLinkCodeRepository.Upsert(...): the store
\* generates the code and replaces the account's code.
passwordless_upsert(p) ==
  /\ pc[p] = "pl_upsert" /\ IsPasswordless(p)
  /\ UNCHANGED <<req, gen, pre>>
  /\ \/ /\ Abort(p, "fail to create account")
        /\ UNCHANGED <<loc, validated>>
     \/ /\ \E c \in Codes :
             /\ pend' = [pend EXCEPT ![p].magicLinks =
                           {[accountId |-> loc[p].accountId, code |-> c,
                             isFirstAccess |-> loc[p].isFirstAccess]}]
             /\ loc' = [loc EXCEPT ![p].magicLinkCode = c]
        /\ pc' = [pc EXCEPT ![p] = "pl_send"]
        /\ UNCHANGED <<stores, tx, res, validated>>

\* Mutant of sendFailed: the failed dispatch commits instead of rolling back.
sendFailed_commits(p) ==
  /\ TxCommit(p)
  /\ Return(p, "fail to send sms")

\* if err != nil { tx.Rollback(); return errors.New("fail to send sms") }
sendFailed(p) == Abort(p, "fail to send sms")

\* err = EmailAdapter.SendVerificationCodeEmail / SmsAdapter.SendVerificationCodeSms
passwordless_send(p) ==
  /\ pc[p] = "pl_send" /\ IsPasswordless(p)
  /\ UNCHANGED <<req, gen, pre, validated>>
  /\ \/ /\ sendFailed(p)
        /\ UNCHANGED loc
     \/ /\ loc' = [loc EXCEPT ![p].sentTo = req[p].dest,
                              ![p].sentCode = loc[p].magicLinkCode]
        /\ pc' = [pc EXCEPT ![p] = "pl_commit"]
        /\ UNCHANGED <<stores, tx, pend, res>>

\* Mutant of passwordless_commit: the flow ends by issuing credentials for
\* the account instead of returning.
passwordless_commit_issues(p) ==
  /\ pc[p] = "pl_commit" /\ IsPasswordless(p)
  /\ gen' = [gen EXCEPT ![p] = [NoGen EXCEPT !.db = "tx",
                                             !.accountId = loc[p].accountId,
                                             !.isFirstAccess = loc[p].isFirstAccess,
                                             !.refresh = TRUE]]
  /\ pc' = [pc EXCEPT ![p] = "gen_start"]
  /\ UNCHANGED <<stores, req, tx, pend, loc, res, pre, validated>>

\* tx.Commit(); return nil. A committed upsert starts a new life of the
\* account's code.
passwordless_commit(p) ==
  /\ pc[p] = "pl_commit" /\ IsPasswordless(p)
  /\ TxCommit(p)
  /\ Return(p, "ok")
  /\ validated' = {v \in validated : v.accountId # loc[p].accountId}
  /\ UNCHANGED <<req, gen, pre, loc>>

--------------------------------------------------------------------------
\* Credential issuance: genAuthOutput

\* The handle genAuthOutput received in i.db, as the store sees it: absent
\* (the caller set no db field), or the state of the caller's transaction.
GenHandle(p) == IF gen[p].db = Nil THEN Nil ELSE tx[p]

\* var wg, refreshToken, accessToken, err; wg.Add(1) and a deferred wg.Done()
\* per goroutine; both goroutines are started; the handler reaches wg.Wait().
genAuthOutput_start(p) ==
  /\ pc[p] = "gen_start"
  /\ gen' = [gen EXCEPT ![p].wg = IF gen[p].refresh THEN 2 ELSE 1,
                        ![p].grRefresh = IF gen[p].refresh THEN "running" ELSE "none",
                        ![p].grAccess = "running"]
  /\ pc' = [pc EXCEPT ![p] = "gen_wait"]
  /\ UNCHANGED <<stores, req, tx, pend, loc, res, pre, validated>>

\* go func() { refreshToken, err = RefreshTokenRepository.Create(Db: i.db, ...) }()
\* The store writes under an open transaction only; the goroutine assigns
\* the shared err whatever the outcome.
genAuthOutput_refresh(p) ==
  /\ pc[p] = "gen_wait" /\ gen[p].grRefresh = "running"
  /\ \E t \in Tokens \cup {Nil} :
       /\ t # Nil => GenHandle(p) = "open"
       /\ t # Nil => [accountId |-> gen[p].accountId, token |-> t] \notin ViewRefreshTokens(p)
       /\ gen' = [gen EXCEPT ![p].refreshToken = t,
                             ![p].err = IF t = Nil THEN "err" ELSE Nil,
                             ![p].grRefresh = "done",
                             ![p].refreshDb = GenHandle(p)]
       /\ pend' = [pend EXCEPT ![p].refreshTokens =
                     IF t = Nil THEN @
                     ELSE @ \cup {[accountId |-> gen[p].accountId, token |-> t]}]
  /\ UNCHANGED <<stores, pc, req, tx, loc, res, pre, validated>>

\* go func() { accessToken, err = TokenAdapter.GenAccess(...) }()
genAuthOutput_access(p) ==
  /\ pc[p] = "gen_wait" /\ gen[p].grAccess = "running"
  /\ \E ok \in BOOLEAN :
       /\ gen' = [gen EXCEPT ![p].accessToken = IF ok THEN "access" ELSE Nil,
                             ![p].err = IF ok THEN Nil ELSE "err",
                             ![p].grAccess = "done"]
       /\ loc' = [loc EXCEPT ![p].minted = ok]
  /\ UNCHANGED <<stores, pc, req, tx, pend, res, pre, validated>>

\* wg.Wait() returns when the counter is zero. The counter is lowered only by
\* the deferred wg.Done() calls, which run when genAuthOutput returns.
WaitReleased(p) == gen[p].wg = 0

\* The code after wg.Wait(): rollback and the issuance error when err is set,
\* else commit and the AuthOutput built from both results.
genAuthOutput_join(p) ==
  /\ pc[p] = "gen_wait"
  /\ WaitReleased(p)
  /\ UNCHANGED <<req, loc, gen, pre, validated>>
  /\ IF gen[p].db = Nil
       THEN /\ Return(p, "panic: nil *sql.Tx")
            /\ UNCHANGED <<stores, tx, pend>>
       ELSE IF gen[p].err # Nil
         THEN /\ TxRollback(p)
              /\ Return(p, "fail to generate auth output")
         ELSE /\ TxCommit(p)
              /\ Return(p, IF gen[p].accessToken = Nil \/ gen[p].refreshToken = Nil
                             THEN "panic: nil pointer dereference" ELSE "ok")

\* Both goroutines are done and the handler is parked in wg.Wait().
Blocked(p) ==
  /\ pc[p] = "gen_wait"
  /\ gen[p].grRefresh # "running"
  /\ gen[p].grAccess # "running"

--------------------------------------------------------------------------
\* Account linking and external-provider sign-in: createFromExternal

IsExternal(p) ==
  req[p].op \in {"CreateFromGoogleProvider", "CreateFromFacebookProvider"}

CreateFromGoogleProvider(p) ==
  /\ CanStart(p)
  /\ Begin(p, [NoReq EXCEPT !.op = "CreateFromGoogleProvider",
                            !.providerType = "GOOGLE"], "ex_exchange")

CreateFromFacebookProvider(p) ==
  /\ CanStart(p)
  /\ Begin(p, [NoReq EXCEPT !.op = "CreateFromFacebookProvider",
                            !.providerType = "FACEBOOK"], "ex_exchange")

\* exchangeCode, err := providerService.ExchangeCode(...). Of the returned
\* scopes the model keeps what HasRequiredScopes will say of them.
external_exchange(p) ==
  /\ pc[p] = "ex_exchange" /\ IsExternal(p)
  /\ UNCHANGED <<req, gen, pre, validated>>
  /\ \/ /\ Abort(p, "fail to exchange code")
        /\ UNCHANGED loc
     \/ /\ \E sc \in {"sufficient", "insufficient"} :
             loc' = [loc EXCEPT ![p].scopes = sc]
        /\ pc' = [pc EXCEPT ![p] = "ex_scopes"]
        /\ UNCHANGED <<stores, tx, pend, res>>

\* Mutant of hasRequiredScopes: the answer of the adapter is not looked at.
hasRequiredScopes_always(p) == TRUE

\* hasRequiredScopes := providerService.HasRequiredScopes(exchangeCode.Scopes)
hasRequiredScopes(p) == loc[p].scopes = "sufficient"

\* if !hasRequiredScopes { i.db.Rollback(); return errors.New("missing scopes") }
external_scopes(p) ==
  /\ pc[p] = "ex_scopes" /\ IsExternal(p)
  /\ UNCHANGED <<req, gen, pre, loc, validated>>
  /\ IF ~hasRequiredScopes(p)
       THEN Abort(p, "missing scopes")
       ELSE /\ pc' = [pc EXCEPT ![p] = "ex_userdata"]
            /\ UNCHANGED <<stores, tx, pend, res>>

\* providerData, err := providerService.GetUserData(exchangeCode.AccessToken)
external_userdata(p) ==
  /\ pc[p] = "ex_userdata" /\ IsExternal(p)
  /\ UNCHANGED <<req, gen, pre, validated>>
  /\ \/ /\ Abort(p, "fail to get external user data")
        /\ UNCHANGED loc
     \/ /\ \E id \in SubjectIds, e \in Emails, v \in BOOLEAN :
             loc' = [loc EXCEPT ![p].providerData =
                       [id |-> id, email |-> e, isEmailVerified |-> v]]
        /\ pc' = [pc EXCEPT ![p] = "ex_verified"]
        /\ UNCHANGED <<stores, tx, pend, res>>

\* Mutant of external_verified: the verified flag of the profile is not checked.
external_verified_skipped(p) ==
  /\ pc[p] = "ex_verified" /\ IsExternal(p)
  /\ pc' = [pc EXCEPT ![p] = "ex_related"]
  /\ UNCHANGED <<stores, req, tx, pend, loc, gen, res, pre, validated>>

\* if !providerData.IsEmailVerified { i.db.Rollback(); return errors.New("unverified email") }
external_verified(p) ==
  /\ pc[p] = "ex_verified" /\ IsExternal(p)
  /\ UNCHANGED <<req, gen, pre, loc, validated>>
  /\ IF ~loc[p].providerData.isEmailVerified
       THEN Abort(p, "unverified email")
       ELSE /\ pc' = [pc EXCEPT ![p] = "ex_related"]
            /\ UNCHANGED <<stores, tx, pend, res>>

\* The rows AccountRepository.GetManyByProvider selects: the identities with
\* this (provider id, provider type) or whose account has this email.
RelatedRows(p) ==
  {[accountId |-> i.accountId, providerId |-> i.providerId,
    providerType |-> i.providerType, email |-> a.email] :
     <<i, a>> \in {ia \in ViewIdentities(p) \X ViewAccounts(p) :
                     /\ ia[1].accountId = ia[2].id
                     /\ \/ /\ ia[1].providerId = loc[p].providerData.id
                           /\ ia[1].providerType = req[p].providerType
                        \/ ia[2].email = loc[p].providerData.email}}

\* The lists a store may return for a set of rows: any order.
Orderings(S) ==
  {f \in [1..Cardinality(S) -> S] : \A i, j \in 1..Cardinality(S) : i # j => f[i] # f[j]}

\* relatedAccounts, err := AccountRepository.GetManyByProvider(...)
external_related(p) ==
  /\ pc[p] = "ex_related" /\ IsExternal(p)
  /\ UNCHANGED <<req, gen, pre, validated>>
  /\ \/ /\ Abort(p, "fail to get related accounts")
        /\ UNCHANGED loc
     \/ /\ \E l \in Orderings(RelatedRows(p)) :
             loc' = [loc EXCEPT ![p].related = l]
        /\ pc' = [pc EXCEPT ![p] = "ex_resolve"]
        /\ UNCHANGED <<stores, tx, pend, res>>

\* A pointer of the candidate scan: nil, the zero record new(...) allocated, or
\* the loop variable v as taken in iteration iter.
NilPtr == [tgt |-> Nil, iter |-> 0]
NewPtr == [tgt |-> "new", iter |-> 0]
AddrOfV(i) == [tgt |-> "v", iter |-> i]

ZeroRow == [accountId |-> NoAccount, providerId |-> "", providerType |-> "", email |-> ""]

\* for _, v := range relatedAccounts { ... }, from iteration i on. The result
\* keeps both pointers and the last iteration that ran.
RECURSIVE ScanFrom(_, _, _, _, _, _)
ScanFrom(cands, i, sameEmail, sameProvider, pd, type) ==
  IF i > Len(cands)
    THEN [sameEmail |-> sameEmail, sameProvider |-> sameProvider, last |-> Len(cands)]
    ELSE LET v == cands[i]
             se == IF v.email = pd.email THEN AddrOfV(i) ELSE sameEmail
             sp == IF v.providerId = pd.id /\ v.providerType = type
                     THEN AddrOfV(i) ELSE sameProvider
         IN IF se # NilPtr /\ sp # NilPtr
              THEN [sameEmail |-> se, sameProvider |-> sp, last |-> i]
              ELSE ScanFrom(cands, i + 1, se, sp, pd, type)

\* sameEmail := new(...); sameProvider := new(...); the loop.
Scan(cands, pd, type) == ScanFrom(cands, 1, NewPtr, NewPtr, pd, type)

\* What a pointer of the scan points to after the loop. &v is the address of
\* the loop variable: one variable for the whole loop, holding the last
\* candidate visited (Go before 1.22), or one per iteration (Go 1.22 on).
Deref(ptr, scan, cands, perIteration) ==
  IF ptr.tgt = "new" THEN ZeroRow
  ELSE IF perIteration THEN cands[ptr.iter] ELSE cands[scan.last]

\* Mutant of relateAccount: the account of the first candidate is taken,
\* whichever rule it matches.
relateAccount_first(cands, pd, type, perIteration) == cands[1].accountId

\* The accountId the two rules leave for a non-empty candidate list.
relateAccount(cands, pd, type, perIteration) ==
  LET scan == Scan(cands, pd, type)
      byEmail ==
        IF /\ scan.sameEmail # NilPtr
           /\ scan.sameProvider = NilPtr
           /\ Deref(scan.sameEmail, scan, cands, perIteration).providerType # type
          THEN Deref(scan.sameEmail, scan, cands, perIteration).accountId
          ELSE NoAccount
  IN IF scan.sameProvider # NilPtr
       THEN Deref(scan.sameProvider, scan, cands, perIteration).accountId
       ELSE byEmail

\* return serv.genAuthOutput(&genAuthOutputInput{accountId, isFirstAccess,
\* refresh: true}): the db field is not set.
externalIssue(p, accountId, isFirstAccess) ==
  /\ gen' = [gen EXCEPT ![p] = [NoGen EXCEPT !.db = Nil,
                                             !.accountId = accountId,
                                             !.isFirstAccess = isFirstAccess,
                                             !.refresh = TRUE]]
  /\ pc' = [pc EXCEPT ![p] = "gen_start"]

\* Mutant of external_resolve: resolving to an existing account attaches an
\* identity of the incoming provider to it.
external_resolve_attaches(p) ==
  /\ pc[p] = "ex_resolve" /\ IsExternal(p)
  /\ UNCHANGED <<req, pre, validated>>
  /\ IF Len(loc[p].related) > 0
       THEN \E perIteration \in BOOLEAN :
              LET accountId == relateAccount(loc[p].related, loc[p].providerData,
                                             req[p].providerType, perIteration)
              IN /\ loc' = [loc EXCEPT ![p].accountId = accountId]
                 /\ IF accountId = NoAccount
                      THEN /\ Abort(p, "fail to relate account")
                           /\ UNCHANGED gen
                      ELSE /\ externalIssue(p, accountId, FALSE)
                           /\ pend' = [pend EXCEPT ![p].identities = @ \cup
                                         {Identity(accountId, loc[p].providerData.id,
                                                   req[p].providerType)}]
                           /\ UNCHANGED <<stores, tx, res>>
       ELSE /\ pc' = [pc EXCEPT ![p] = "ex_create"]
            /\ UNCHANGED <<stores, tx, pend, res, loc, gen>>

\* if len(relatedAccounts) > 0 { scan; rules; "fail to relate account" } else ...
external_resolve(p) ==
  /\ pc[p] = "ex_resolve" /\ IsExternal(p)
  /\ UNCHANGED <<req, pre, validated>>
  /\ IF Len(loc[p].related) > 0
       THEN \E perIteration \in BOOLEAN :
              LET accountId == relateAccount(loc[p].related, loc[p].providerData,
                                             req[p].providerType, perIteration)
              IN /\ loc' = [loc EXCEPT ![p].accountId = accountId]
                 /\ IF accountId = NoAccount
                      THEN /\ Abort(p, "fail to relate account")
                           /\ UNCHANGED gen
                      ELSE /\ externalIssue(p, accountId, FALSE)
                           /\ UNCHANGED <<stores, tx, pend, res>>
       ELSE /\ pc' = [pc EXCEPT ![p] = "ex_create"]
            /\ UNCHANGED <<stores, tx, pend, res, loc, gen>>

\* The rows AccountRepository.Create writes for the external input: the account
\* (Email: providerData.Email) and its SignInProviders, one row of the
\* incoming provider id and type.
NewExternalAccount(p) == Account(NewAccountId, loc[p].providerData.email, None)
\* Mutant of NewExternalIdentities: the account is created without its identity.
NewExternalIdentities_none(p) == {}

NewExternalIdentities(p) ==
  {Identity(NewAccountId, loc[p].providerData.id, req[p].providerType)}

\* The store rejects a repeated email and a repeated (provider type, id).
DuplicatesExternal(p) ==
  \/ \E a \in ViewAccounts(p) : a.email = loc[p].providerData.email
  \/ \E i \in ViewIdentities(p) :
       /\ i.providerId = loc[p].providerData.id
       /\ i.providerType = req[p].providerType

\* result, err := AccountRepository.Create(...); accountId = result.Id;
\* isFirstAccess = true
external_create(p) ==
  /\ pc[p] = "ex_create" /\ IsExternal(p)
  /\ UNCHANGED <<req, pre, validated>>
  /\ \/ /\ Abort(p, "fail to create account")
        /\ UNCHANGED <<loc, gen>>
     \/ /\ ~DuplicatesExternal(p)
        /\ pend' = [pend EXCEPT ![p].accounts = @ \cup {NewExternalAccount(p)},
                                ![p].identities = @ \cup NewExternalIdentities(p)]
        /\ loc' = [loc EXCEPT ![p].accountId = NewAccountId,
                              ![p].isFirstAccess = TRUE]
        /\ externalIssue(p, NewAccountId, TRUE)
        /\ UNCHANGED <<stores, tx, res>>

--------------------------------------------------------------------------
\* ExchangeCode

ExchangeCode(p) ==
  /\ CanStart(p)
  /\ \E a \in InputAccountIds, c \in Codes :
       Begin(p, [NoReq EXCEPT !.op = "ExchangeCode", !.accountId = a, !.secret = c],
             "xc_get")

\* MagicLinkCodeRepository.Get: the account's code row when its code is the
\* one asked for. A lookup; the row stays.
MagicLinkGet(p) ==
  {m \in ViewMagicLinks(p) : m.accountId = req[p].accountId /\ m.code = req[p].secret}

\* magicLinkCode, err := MagicLinkCodeRepository.Get(...); the two error returns.
exchange_get(p) ==
  /\ pc[p] = "xc_get" /\ req[p].op = "ExchangeCode"
  /\ UNCHANGED <<req, gen, pre>>
  /\ \/ /\ Abort(p, "fail to get account")
        /\ UNCHANGED <<loc, validated>>
     \/ /\ MagicLinkGet(p) = {}
        /\ Abort(p, "magic link code doesn't exist")
        /\ UNCHANGED <<loc, validated>>
     \/ /\ \E m \in MagicLinkGet(p) :
             loc' = [loc EXCEPT ![p].isFirstAccess = m.isFirstAccess,
                                ![p].magicLinkCode = m.code]
        /\ validated' = validated \cup
                          {[accountId |-> req[p].accountId, code |-> req[p].secret]}
        /\ pc' = [pc EXCEPT ![p] = "xc_commit"]
        /\ UNCHANGED <<stores, tx, pend, res>>

\* tx.Commit(); return serv.genAuthOutput(&genAuthOutputInput{db: tx, ...})
exchange_commit(p) ==
  /\ pc[p] = "xc_commit" /\ req[p].op = "ExchangeCode"
  /\ TxCommit(p)
  /\ gen' = [gen EXCEPT ![p] = [NoGen EXCEPT !.db = "tx",
                                             !.accountId = req[p].accountId,
                                             !.isFirstAccess = loc[p].isFirstAccess,
                                             !.refresh = TRUE]]
  /\ pc' = [pc EXCEPT ![p] = "gen_start"]
  /\ UNCHANGED <<req, loc, res, pre, validated>>

--------------------------------------------------------------------------
\* RefreshToken

RefreshToken(p) ==
  /\ CanStart(p)
  /\ \E a \in InputAccountIds, t \in Tokens :
       Begin(p, [NoReq EXCEPT !.op = "RefreshToken", !.accountId = a, !.secret = t],
             "rt_get")

\* RefreshTokenRepository.Get: whether the account holds the token.
RefreshTokenExists(p) ==
  [accountId |-> req[p].accountId, token |-> req[p].secret] \in ViewRefreshTokens(p)

\* Mutant of refreshTokenMissing: the missing token is not treated as an error.
refreshTokenMissing_ignored(p) ==
  /\ pc' = [pc EXCEPT ![p] = "rt_mint"]
  /\ UNCHANGED <<stores, tx, pend, res>>

\* if !refreshToken { tx.Rollback(); return errors.New("refresh token doesn't exist") }
refreshTokenMissing(p) == Abort(p, "refresh token doesn't exist")

\* refreshToken, err := RefreshTokenRepository.Get(...); the two error returns.
refresh_get(p) ==
  /\ pc[p] = "rt_get" /\ req[p].op = "RefreshToken"
  /\ UNCHANGED <<req, gen, pre, loc, validated>>
  /\ \/ Abort(p, "fail to get account")
     \/ /\ ~RefreshTokenExists(p)
        /\ refreshTokenMissing(p)
     \/ /\ RefreshTokenExists(p)
        /\ pc' = [pc EXCEPT ![p] = "rt_mint"]
        /\ UNCHANGED <<stores, tx, pend, res>>

\* accessToken, err := TokenAdapter.GenAccess(...)
refresh_mint(p) ==
  /\ pc[p] = "rt_mint" /\ req[p].op = "RefreshToken"
  /\ UNCHANGED <<req, gen, pre, validated>>
  /\ \/ /\ Abort(p, "fail to generate access token")
        /\ UNCHANGED loc
     \/ /\ loc' = [loc EXCEPT ![p].minted = TRUE]
        /\ pc' = [pc EXCEPT ![p] = "rt_commit"]
        /\ UNCHANGED <<stores, tx, pend, res>>

\* Mutant of refresh_commit: the refresh rotates the token, replacing the one
\* presented by a new one.
refresh_commit_rotates(p) ==
  /\ pc[p] = "rt_commit" /\ req[p].op = "RefreshToken"
  /\ \E t \in Tokens :
       /\ [accountId |-> req[p].accountId, token |-> t] \notin refreshTokens
       /\ refreshTokens' =
            (refreshTokens \ {[accountId |-> req[p].accountId, token |-> req[p].secret]})
              \cup {[accountId |-> req[p].accountId, token |-> t]}
  /\ tx' = [tx EXCEPT ![p] = "committed"]
  /\ pend' = [pend EXCEPT ![p] = NoPend]
  /\ Return(p, "ok")
  /\ UNCHANGED <<accounts, identities, magicLinks, req, gen, pre, loc, validated>>

\* tx.Commit(); return &RefreshAccountTokenOutput{...}, nil
refresh_commit(p) ==
  /\ pc[p] = "rt_commit" /\ req[p].op = "RefreshToken"
  /\ TxCommit(p)
  /\ Return(p, "ok")
  /\ UNCHANGED <<req, gen, pre, loc, validated>>

--------------------------------------------------------------------------
\* The server: handlers end, or stay parked

\* The handler goroutine ends; its slot serves the next request.
Recycle(p) ==
  /\ pc[p] = "returned"
  /\ pc' = [pc EXCEPT ![p] = "idle"]
  /\ req' = [req EXCEPT ![p] = NoReq]
  /\ tx' = [tx EXCEPT ![p] = "none"]
  /\ loc' = [loc EXCEPT ![p] = NoLoc]
  /\ gen' = [gen EXCEPT ![p] = NoGen]
  /\ res' = [res EXCEPT ![p] = None]
  /\ pre' = [pre EXCEPT ![p] = NoPre]
  /\ UNCHANGED <<stores, pend, validated>>

\* A handler parked in wg.Wait() takes no further step and nothing it holds
\* becomes visible: its transaction is never committed. The server goes on
\* serving; the parked handler is dropped from the model.
Abandon(p) ==
  /\ Blocked(p)
  /\ pc' = [pc EXCEPT ![p] = "idle"]
  /\ req' = [req EXCEPT ![p] = NoReq]
  /\ tx' = [tx EXCEPT ![p] = "none"]
  /\ pend' = [pend EXCEPT ![p] = NoPend]
  /\ loc' = [loc EXCEPT ![p] = NoLoc]
  /\ gen' = [gen EXCEPT ![p] = NoGen]
  /\ res' = [res EXCEPT ![p] = None]
  /\ pre' = [pre EXCEPT ![p] = NoPre]
  /\ UNCHANGED <<stores, validated>>

Next ==
  \E p \in Procs :
    \/ CreateFromEmailProvider(p)
    \/ CreateFromPhoneProvider(p)
    \/ passwordless_get(p)
    \/ passwordless_create(p)
    \/ passwordless_upsert(p)
    \/ passwordless_send(p)
    \/ passwordless_commit(p)
    \/ CreateFromGoogleProvider(p)
    \/ CreateFromFacebookProvider(p)
    \/ external_exchange(p)
    \/ external_scopes(p)
    \/ external_userdata(p)
    \/ external_verified(p)
    \/ external_related(p)
    \/ external_resolve(p)
    \/ external_create(p)
    \/ ExchangeCode(p)
    \/ exchange_get(p)
    \/ exchange_commit(p)
    \/ RefreshToken(p)
    \/ refresh_get(p)
    \/ refresh_mint(p)
    \/ refresh_commit(p)
    \/ genAuthOutput_start(p)
    \/ genAuthOutput_refresh(p)
    \/ genAuthOutput_access(p)
    \/ Recycle(p)
    \/ Abandon(p)

Spec == Init /\ [][Next]_vars

--------------------------------------------------------------------------
\* External-provider sign-in alone, over every well-formed set of sign-in
\* identities of two accounts.

InitLink ==
  /\ accounts \in SUBSET InitAccountRows
  /\ identities \in
       {ids \in SUBSET {Identity(a.id, s, t) :
                          a \in accounts, s \in SubjectIds, t \in ExternalTypes} :
          WellFormedIdentities(ids)}
  /\ refreshTokens = {}
  /\ magicLinks = {}
  /\ pc = [p \in Procs |-> "idle"]
  /\ req = [p \in Procs |-> NoReq]
  /\ tx = [p \in Procs |-> "none"]
  /\ pend = [p \in Procs |-> NoPend]
  /\ loc = [p \in Procs |-> NoLoc]
  /\ gen = [p \in Procs |-> NoGen]
  /\ res = [p \in Procs |-> None]
  /\ pre = [p \in Procs |-> NoPre]
  /\ validated = {}

ExternalStep(p) ==
  \/ CreateFromGoogleProvider(p)
  \/ CreateFromFacebookProvider(p)
  \/ external_exchange(p)
  \/ external_scopes(p)
  \/ external_userdata(p)
  \/ external_verified(p)
  \/ external_related(p)
  \/ external_resolve(p)
  \/ external_create(p)
  \/ genAuthOutput_start(p)
  \/ genAuthOutput_refresh(p)
  \/ genAuthOutput_access(p)
  \/ Recycle(p)
  \/ Abandon(p)

NextLink == \E p \in Procs : ExternalStep(p)

SpecLink == InitLink /\ [][NextLink]_vars

--------------------------------------------------------------------------
\* Requests that run to their end: a handler that can take a step takes it
\* (the Go scheduler runs every runnable goroutine), and a parked handler
\* stays parked.

HandlerStep(p) ==
  \/ passwordless_get(p)
  \/ passwordless_create(p)
  \/ passwordless_upsert(p)
  \/ passwordless_send(p)
  \/ passwordless_commit(p)
  \/ external_exchange(p)
  \/ external_scopes(p)
  \/ external_userdata(p)
  \/ external_verified(p)
  \/ external_related(p)
  \/ external_resolve(p)
  \/ external_create(p)
  \/ exchange_get(p)
  \/ exchange_commit(p)
  \/ refresh_get(p)
  \/ refresh_mint(p)
  \/ refresh_commit(p)
  \/ genAuthOutput_start(p)
  \/ genAuthOutput_refresh(p)
  \/ genAuthOutput_access(p)

StartStep(p) ==
  \/ CreateFromEmailProvider(p)
  \/ CreateFromPhoneProvider(p)
  \/ CreateFromGoogleProvider(p)
  \/ CreateFromFacebookProvider(p)
  \/ ExchangeCode(p)
  \/ RefreshToken(p)

NextFair == \E p \in Procs : StartStep(p) \/ HandlerStep(p) \/ Recycle(p)

FairSpec ==
  /\ Init
  /\ [][NextFair]_vars
  /\ \A p \in Procs : WF_vars(HandlerStep(p))

--------------------------------------------------------------------------
\* Passwordless requests that overlap: the server runs every request in a
\* goroutine of its own, so a request can begin while others are under way.
\* Every slot serves one request: NumProcs requests, in any interleaving.

InitRace ==
  /\ Init
  /\ identities = {}
  /\ refreshTokens = {}

CreateFromEmailConcurrent(p) ==
  /\ pc[p] = "idle"
  /\ \E e \in Emails :
    Begin(p, [NoReq EXCEPT !.op = "CreateFromEmailProvider", !.dest = e], "pl_get")

CreateFromPhoneConcurrent(p) ==
  /\ pc[p] = "idle"
  /\ \E n \in Phones :
    Begin(p, [NoReq EXCEPT !.op = "CreateFromPhoneProvider", !.dest = n], "pl_get")

NextRace ==
  \E p \in Procs :
    \/ CreateFromEmailConcurrent(p)
    \/ CreateFromPhoneConcurrent(p)
    \/ passwordless_get(p)
    \/ passwordless_create(p)
    \/ passwordless_upsert(p)
    \/ passwordless_send(p)
    \/ passwordless_commit(p)

SpecRace == InitRace /\ [][NextRace]_vars

--------------------------------------------------------------------------
\* Properties

\* The candidate rows of slot p's sign-in, once the store has returned them.
Candidates(p) == {loc[p].related[i] : i \in 1..Len(loc[p].related)}

SameProviderRows(p) ==
  {r \in Candidates(p) : /\ r.providerId = loc[p].providerData.id
                         /\ r.providerType = req[p].providerType}

SameEmailRows(p) == {r \in Candidates(p) : r.email = loc[p].providerData.email}

\* Slot p's sign-in has run account resolution over a non-empty candidate list.
Resolved(p) ==
  /\ IsExternal(p)
  /\ Len(loc[p].related) > 0
  /\ pc[p] \in {"gen_start", "gen_wait", "returned"}

\* Resolution succeeded with account a: the sign-in went on to credential
\* issuance for a, and wrote no account and no identity.
ResolvedTo(p, a) ==
  /\ pc[p] \in {"gen_start", "gen_wait"}
  /\ gen[p].accountId = a
  /\ pend[p].accounts = {}
  /\ pend[p].identities = {}

\* A sub-operation of slot p's credential issuance has completed and failed.
SubOperationFailed(p) ==
  \/ gen[p].grRefresh = "done" /\ gen[p].refreshToken = Nil
  \/ gen[p].grAccess = "done" /\ gen[p].accessToken = Nil

\* C1: a magic-link code is valid for one exchange: an ExchangeCode for a code
\* that an earlier ExchangeCode has accepted, with no passwordless request for
\* the account in between, finds no code (and so fails with "magic link code
\* doesn't exist").
C1_CodeValidOnce ==
  \A p \in Procs :
    ( /\ req[p].op = "ExchangeCode"
      /\ pc[p] = "xc_get"
      /\ [accountId |-> req[p].accountId, code |-> req[p].secret] \in validated )
    => MagicLinkGet(p) = {}

\* C2: a sign-in whose candidates hold an identity with the same email under
\* another provider type, none with the same (provider type, subject id) and
\* none of the incoming type for that email, resolves to that identity's
\* account, creating nothing.
C2_EmailLinkResolves ==
  \A p \in Procs :
    ( /\ Resolved(p)
      /\ SameProviderRows(p) = {}
      /\ \E r \in SameEmailRows(p) : r.providerType # req[p].providerType
      /\ \A r \in SameEmailRows(p) : r.providerType # req[p].providerType )
    => \E r \in SameEmailRows(p) : ResolvedTo(p, r.accountId)

\* C3: a sign-in whose candidates hold an identity with the same (provider
\* type, subject id) resolves to that identity's account, wherever the row is
\* in the list, whatever its email and whatever else matches by email; no
\* account or identity is created.
C3_SameProviderResolves ==
  \A p \in Procs :
    (Resolved(p) /\ SameProviderRows(p) # {})
    => \E r \in SameProviderRows(p) : ResolvedTo(p, r.accountId)

\* C4: in credential issuance, when a sub-operation (refresh-token write or
\* access-token mint) has failed, the transaction is not committed.
C4_FailedIssuanceNotCommitted ==
  \A p \in Procs :
    (pc[p] \in {"gen_wait", "returned"} /\ gen[p].refresh /\ SubOperationFailed(p))
    => tx[p] # "committed"

\* C5: once both sub-operations of credential issuance have completed, the
\* join is released: the handler can take the step after wg.Wait().
C5_JoinReleased ==
  \A p \in Procs : Blocked(p) => ENABLED genAuthOutput_join(p)

\* C6: an operation that opened a transaction ends it before returning: every
\* open transaction is eventually committed or rolled back, with the operation
\* returned.
C6_OpenTransactionEnds ==
  \A p \in Procs :
    (tx[p] = "open") ~> (pc[p] = "returned" /\ tx[p] \in {"committed", "rolledback"})

\* The account the passwordless flow of slot p found or created is committed
\* with the requested email or phone.
PasswordlessAccountStored(p) ==
  \E a \in accounts :
    /\ a.id = loc[p].accountId
    /\ IF req[p].op = "CreateFromEmailProvider" THEN a.email = req[p].dest
                                                 ELSE a.phone = req[p].dest

\* C7: a passwordless flow commits only when lookup, creation, upsert and
\* dispatch all succeeded, and then account and code are stored; when any of
\* them failed the transaction is rolled back and the committed stores are
\* those from before the request (no account, no code of it is visible).
C7_PasswordlessAllOrNothing ==
  \A p \in Procs :
    (IsPasswordless(p) /\ pc[p] = "returned")
    => /\ (tx[p] = "committed") <=> (res[p] = "ok")
       /\ res[p] = "ok" =>
            /\ PasswordlessAccountStored(p)
            /\ [accountId |-> loc[p].accountId, code |-> loc[p].magicLinkCode,
                isFirstAccess |-> loc[p].isFirstAccess] \in magicLinks
            /\ loc[p].sentTo = req[p].dest
            /\ loc[p].sentCode = loc[p].magicLinkCode
       /\ res[p] # "ok" =>
            /\ stores = pre[p]
            /\ pend[p] = NoPend
            /\ tx[p] = IF res[p] = "fail to create transaction" THEN "none"
                                                                 ELSE "rolledback"

\* C7 witness: the dispatch failed after the flow had created a new account.
C7_Witness ==
  \E p \in Procs :
    /\ IsPasswordless(p) /\ pc[p] = "returned"
    /\ res[p] = "fail to send sms"
    /\ loc[p].isFirstAccess
    /\ loc[p].magicLinkCode # None

\* C8: a sign-in for which the store returned no candidate and that went on to
\* credential issuance has written, under its transaction, exactly one new
\* account (with the provider's email) and exactly one identity of it (the
\* incoming provider type and subject id), and hands first-access = true on.
C8_NoCandidateCreatesAccount ==
  \A p \in Procs :
    (IsExternal(p) /\ pc[p] \in {"gen_start", "gen_wait"} /\ Len(loc[p].related) = 0)
    => /\ gen[p].isFirstAccess
       /\ gen[p].accountId \notin {a.id : a \in accounts}
       /\ pend[p].accounts =
            {Account(gen[p].accountId, loc[p].providerData.email, None)}
       /\ pend[p].identities =
            {Identity(gen[p].accountId, loc[p].providerData.id, req[p].providerType)}

\* C8 witness: a sign-in with an empty candidate list reached credential issuance.
C8_Witness ==
  \E p \in Procs :
    /\ IsExternal(p) /\ pc[p] = "gen_start"
    /\ Len(loc[p].related) = 0
    /\ Cardinality(pend[p].accounts) = 1

\* C9: a sign-in whose exchanged scopes are insufficient goes no further than
\* the scope check: it returns "missing scopes", its transaction is rolled
\* back, and the committed stores are those from before the request.
C9_MissingScopesAborts ==
  \A p \in Procs :
    (IsExternal(p) /\ loc[p].scopes = "insufficient" /\ pc[p] # "ex_scopes")
    => /\ pc[p] = "returned"
       /\ res[p] = "missing scopes"
       /\ tx[p] = "rolledback"
       /\ pend[p] = NoPend
       /\ stores = pre[p]

\* C9 witness: a sign-in returned after insufficient scopes.
C9_Witness ==
  \E p \in Procs :
    /\ IsExternal(p) /\ pc[p] = "returned"
    /\ loc[p].scopes = "insufficient"

\* The refresh token of slot p's request is not in the store.
RequestedTokenAbsent(p) ==
  [accountId |-> req[p].accountId, token |-> req[p].secret] \notin refreshTokens

\* C10: a RefreshToken request for a token the account does not hold never
\* reaches the token adapter and never commits; once the lookup has answered
\* it returns "refresh token doesn't exist" with the transaction rolled back,
\* no access token minted and the stores as they were.
C10_UnknownRefreshTokenRejected ==
  \A p \in Procs :
    (req[p].op = "RefreshToken" /\ RequestedTokenAbsent(p))
    => /\ pc[p] \in {"rt_get", "returned"}
       /\ ~loc[p].minted
       /\ stores = pre[p]
       /\ pc[p] = "returned" =>
            /\ res[p] \in {"refresh token doesn't exist", "fail to get account",
                           "fail to create transaction"}
            /\ res[p] = "refresh token doesn't exist" =>
                 tx[p] = "rolledback" /\ pend[p] = NoPend

\* C10 witness: a request for an absent token returned "refresh token doesn't exist".
C10_Witness ==
  \E p \in Procs :
    /\ req[p].op = "RefreshToken" /\ pc[p] = "returned"
    /\ RequestedTokenAbsent(p)
    /\ res[p] = "refresh token doesn't exist"

\* The accounts that hold the email or phone slot p's passwordless request is for.
AccountsOfDest(p, accts) ==
  IF req[p].op = "CreateFromEmailProvider"
    THEN {a \in accts : a.email = req[p].dest}
    ELSE {a \in accts : a.phone = req[p].dest}

\* The magic-link row slot p's passwordless flow upserted.
UpsertedCode(p) ==
  [accountId |-> loc[p].accountId, code |-> loc[p].magicLinkCode,
   isFirstAccess |-> loc[p].isFirstAccess]

\* C11: when CreateFromEmailProvider(e) has returned success, exactly one
\* account holds e; the code passed to the email adapter is the stored code of
\* that account and went to e. Was there no account with e before the request,
\* that account is the one new row of the account store and its code carries
\* first-access = true; was there one, the account store is unchanged and the
\* code is stored for that account with first-access = false.
C11_CreateFromEmailSucceeds ==
  \A p \in Procs :
    (req[p].op = "CreateFromEmailProvider" /\ pc[p] = "returned" /\ res[p] = "ok")
    => /\ Cardinality(AccountsOfDest(p, accounts)) = 1
       /\ \A a \in AccountsOfDest(p, accounts) : a.id = loc[p].accountId
       /\ UpsertedCode(p) \in magicLinks
       /\ Cardinality({m \in magicLinks : m.accountId = loc[p].accountId}) = 1
       /\ loc[p].sentCode = loc[p].magicLinkCode
       /\ loc[p].sentCode \in Codes
       /\ loc[p].sentTo = req[p].dest
       /\ IF AccountsOfDest(p, pre[p][1]) = {}
            THEN /\ loc[p].isFirstAccess
                 /\ accounts = pre[p][1] \cup AccountsOfDest(p, accounts)
                 /\ AccountsOfDest(p, accounts) \cap pre[p][1] = {}
            ELSE /\ ~loc[p].isFirstAccess
                 /\ accounts = pre[p][1]

\* C11 witness: CreateFromEmailProvider succeeded for an email no account held.
C11_Witness ==
  \E p \in Procs :
    /\ req[p].op = "CreateFromEmailProvider" /\ pc[p] = "returned" /\ res[p] = "ok"
    /\ AccountsOfDest(p, pre[p][1]) = {}
    /\ UpsertedCode(p) \in magicLinks

\* C12: when RefreshToken(A, t) has returned success, an access token was
\* minted, credential issuance (and with it the refresh-token write) was not
\* entered, the transaction is committed, and every store is as it was before
\* the request: t is still the token of A.
C12_RefreshMintsOnly ==
  \A p \in Procs :
    (req[p].op = "RefreshToken" /\ pc[p] = "returned" /\ res[p] = "ok")
    => /\ loc[p].minted
       /\ gen[p] = NoGen
       /\ tx[p] = "committed"
       /\ pend[p] = NoPend
       /\ stores = pre[p]
       /\ [accountId |-> req[p].accountId, token |-> req[p].secret] \in refreshTokens

\* C12 witness: a RefreshToken request returned success.
C12_Witness ==
  \E p \in Procs :
    /\ req[p].op = "RefreshToken" /\ pc[p] = "returned" /\ res[p] = "ok"
    /\ refreshTokens # {}

\* C13: a passwordless flow, wherever it stands and however it ended, has not
\* called the token adapter, has not entered credential issuance and has
\* written nothing to the refresh-token store.
C13_PasswordlessIssuesNothing ==
  \A p \in Procs :
    IsPasswordless(p)
    => /\ ~loc[p].minted
       /\ gen[p] = NoGen
       /\ pc[p] \in {"pl_get", "pl_create", "pl_upsert", "pl_send", "pl_commit",
                      "returned"}
       /\ pend[p].refreshTokens = {}
       /\ refreshTokens = pre[p][3]

\* C13 witness: a passwordless flow ran to its successful end.
C13_Witness ==
  \E p \in Procs :
    /\ IsPasswordless(p) /\ pc[p] = "returned" /\ res[p] = "ok"
    /\ loc[p].sentCode # None

\* The positions at which the next step of a handler is a repository call.
StoreCallPcs ==
  {"pl_get", "pl_create", "pl_upsert", "ex_related", "ex_create", "xc_get", "rt_get"}

\* C14: every store call is made with the transaction the operation opened,
\* while it is open: the calls of the handlers themselves, and the
\* refresh-token write of credential issuance, pending or done.
C14_StoreCallsUnderOpenTx ==
  \A p \in Procs :
    /\ pc[p] \in StoreCallPcs => tx[p] = "open"
    /\ gen[p].grRefresh = "running" => GenHandle(p) = "open"
    /\ gen[p].grRefresh = "done" => gen[p].refreshDb = "open"

\* What the steps of a sign-in have left behind tells how far it went. The
\* steps come in the order exchange, scope check, profile, verified email,
\* candidates, resolution, issuance; an error a step before issuance returned
\* has rolled the transaction back, and no later step has run.
ExternalStepOrder(p) ==
  IsExternal(p) =>
    /\ pc[p] \in {"ex_scopes", "ex_userdata", "ex_verified", "ex_related", "ex_resolve",
                   "ex_create", "gen_start", "gen_wait"} => loc[p].scopes # None
    /\ (pc[p] = "ex_userdata" \/ loc[p].providerData # NoProviderData)
         => loc[p].scopes = "sufficient"
    /\ (pc[p] \in {"ex_related", "ex_resolve", "ex_create"} \/ Len(loc[p].related) > 0)
         => loc[p].providerData.isEmailVerified
    /\ pc[p] \in {"gen_start", "gen_wait"}
         => /\ loc[p].providerData.isEmailVerified
            /\ gen[p].accountId # NoAccount
            /\ gen[p].accountId = loc[p].accountId
            /\ gen[p].refresh
    /\ (pc[p] = "returned" /\ res[p] # "fail to create transaction")
         => /\ tx[p] = "rolledback"
            /\ pend[p] = NoPend
            /\ gen[p] = NoGen
            /\ stores = pre[p]
            /\ res[p] = "fail to exchange code" => loc[p].scopes = None
            /\ res[p] \in {"fail to exchange code", "missing scopes",
                            "fail to get external user data"}
                 => loc[p].providerData = NoProviderData
            /\ res[p] \in {"fail to exchange code", "missing scopes",
                            "fail to get external user data", "unverified email",
                            "fail to get related accounts", "fail to create account"}
                 => loc[p].related = <<>> /\ loc[p].accountId = NoAccount

\* C15: the sign-in takes its steps in order, none skipped, and a step that
\* fails rolls the transaction back and returns with no later step run: for
\* the steps up to resolution as ExternalStepOrder says, and for credential
\* issuance, a failed sub-operation leads to the rollback and the return.
C15_ExternalOrderAndAbort ==
  /\ [](\A p \in Procs : ExternalStepOrder(p))
  /\ \A p \in Procs :
       (IsExternal(p) /\ SubOperationFailed(p))
         ~> (pc[p] = "returned" /\ tx[p] = "rolledback")

\* The candidates the email-link rule selects: those with the provider's
\* email, when none of them is of the incoming provider type.
EmailLinkRows(p) ==
  IF \E r \in SameEmailRows(p) : r.providerType = req[p].providerType
    THEN {}
    ELSE SameEmailRows(p)

\* The candidates one of the two rules selects.
RuleRows(p) == SameProviderRows(p) \cup EmailLinkRows(p)

\* C16: a sign-in with candidates of which neither rule selects one fails with
\* "fail to relate account", rolled back and with no credential issuance; a
\* sign-in with candidates that went on to credential issuance does so for a
\* non-empty account id, the account of a candidate one of the rules selects.
C16_UnrelatedFailsNeverArbitrary ==
  \A p \in Procs :
    /\ (Resolved(p) /\ RuleRows(p) = {})
         => /\ pc[p] = "returned"
            /\ res[p] = "fail to relate account"
            /\ tx[p] = "rolledback"
            /\ pend[p] = NoPend
            /\ gen[p] = NoGen
    /\ (Resolved(p) /\ pc[p] \in {"gen_start", "gen_wait"})
         => /\ gen[p].accountId # NoAccount
            /\ \E r \in RuleRows(p) : r.accountId = gen[p].accountId

\* C16 witness: the only candidate has the provider's email under the incoming
\* provider type with another subject id, and the sign-in failed to relate.
C16_Witness ==
  \E p \in Procs :
    /\ Resolved(p) /\ pc[p] = "returned"
    /\ res[p] = "fail to relate account"
    /\ Len(loc[p].related) = 1
    /\ loc[p].related[1].email = loc[p].providerData.email
    /\ loc[p].related[1].providerType = req[p].providerType
    /\ loc[p].related[1].providerId # loc[p].providerData.id

MinOf(S) == CHOOSE x \in S : \A y \in S : x <= y

\* C17: the scan of a sign-in's candidates keeps the first candidate with the
\* provider's email and the first with the incoming (provider type, subject
\* id), and has left candidates unexamined only when it had found both.
C17_ScanKeepsFirstStopsOnBoth ==
  \A p \in Procs :
    Resolved(p) =>
      LET cands == loc[p].related
          scan == Scan(cands, loc[p].providerData, req[p].providerType)
          emailAt == {i \in 1..Len(cands) : cands[i].email = loc[p].providerData.email}
          providerAt == {i \in 1..Len(cands) :
                           /\ cands[i].providerId = loc[p].providerData.id
                           /\ cands[i].providerType = req[p].providerType}
      IN /\ emailAt # {} => scan.sameEmail = AddrOfV(MinOf(emailAt))
         /\ providerAt # {} => scan.sameProvider = AddrOfV(MinOf(providerAt))
         /\ scan.last < Len(cands)
              => /\ \E i \in emailAt : i <= scan.last
                 /\ \E i \in providerAt : i <= scan.last

\* C19: a sign-in whose fetched profile has an unverified email goes no
\* further than the check of the flag: it returns "unverified email", rolled
\* back, with the account store neither queried nor written, the stores as
\* before the request, and no credential issuance.
C19_UnverifiedEmailAborts ==
  \A p \in Procs :
    ( /\ IsExternal(p)
      /\ loc[p].providerData # NoProviderData
      /\ ~loc[p].providerData.isEmailVerified
      /\ pc[p] # "ex_verified" )
    => /\ pc[p] = "returned"
       /\ res[p] = "unverified email"
       /\ tx[p] = "rolledback"
       /\ pend[p] = NoPend
       /\ stores = pre[p]
       /\ loc[p].related = <<>>
       /\ loc[p].accountId = NoAccount
       /\ gen[p] = NoGen
       /\ ~loc[p].minted

\* C19 witness: a sign-in returned after an unverified email.
C19_Witness ==
  \E p \in Procs :
    /\ IsExternal(p) /\ pc[p] = "returned"
    /\ loc[p].providerData \in
         [id : SubjectIds, email : Emails, isEmailVerified : {FALSE}]

\* C20: a sign-in has written accounts or identities only when the store
\* returned no candidate (and then goes on with first-access = true); a
\* sign-in with candidates, resolved or failed, has written none, and the
\* committed accounts and identities are those from before the request.
C20_ExternalWritesOnlyWhenNoCandidate ==
  \A p \in Procs :
    IsExternal(p) =>
      /\ (pend[p].accounts # {} \/ pend[p].identities # {})
           => /\ Len(loc[p].related) = 0
              /\ pc[p] \in {"gen_start", "gen_wait"}
              /\ gen[p].isFirstAccess
      /\ Len(loc[p].related) > 0
           => /\ pend[p].accounts = {}
              /\ pend[p].identities = {}
              /\ accounts = pre[p][1]
              /\ identities = pre[p][2]

\* C20 witness: a sign-in resolved to an existing account and entered
\* credential issuance for it.
C20_Witness ==
  \E p \in Procs :
    /\ Resolved(p) /\ pc[p] = "gen_wait"
    /\ gen[p].accountId \in {a.id : a \in accounts}
    /\ ~gen[p].isFirstAccess

\* C18: whatever the interleaving of passwordless requests, no two committed
\* accounts hold the same email or the same phone; a code is sent only for an
\* account the flow found or created; and a flow that returned "fail to create
\* account" has rolled back, left nothing behind and sent no code.
C18_ConcurrentCreateKeepsUnique ==
  /\ \A a, b \in accounts :
       (a # b) => /\ a.id # b.id
                  /\ a.email = None \/ a.email # b.email
                  /\ a.phone = None \/ a.phone # b.phone
  /\ \A p \in Procs :
       IsPasswordless(p) =>
         /\ (pc[p] \in {"pl_send", "pl_commit"} \/ loc[p].sentTo # None)
              => loc[p].accountId # NoAccount
         /\ (pc[p] = "returned" /\ res[p] = "fail to create account")
              => /\ tx[p] = "rolledback"
                 /\ pend[p] = NoPend
                 /\ loc[p].sentTo = None
                 /\ loc[p].sentCode = None

\* C18 witness: two requests for the same unknown email or phone overlapped;
\* one committed the new account, the other one's create failed.
C18_Witness ==
  \E p, q \in Procs :
    /\ p # q
    /\ IsPasswordless(p) /\ IsPasswordless(q)
    /\ req[p].op = req[q].op /\ req[p].dest = req[q].dest
    /\ pc[p] = "returned" /\ res[p] = "ok" /\ loc[p].isFirstAccess
    /\ pc[q] = "returned" /\ res[q] = "fail to create account"
    /\ loc[q].accountId = NoAccount
    /\ AccountsOfDest(q, pre[q][1]) = {}
    /\ AccountsOfDest(q, accounts) # {}

====
